---- MODULE Spec2Model ----
(***************************************************************************)
(* Model of the badge-grid generator (src/app.py): the shrink-to-fit and   *)
(* greedy-wrap text utilities and GridPDF.draw_grid.                       *)
(*                                                                         *)
(* Units.  Python computes with floats that are all multiples of 0.25 in   *)
(* this program (5.5, 9.5, 0.5 steps), so they are exact; the model keeps  *)
(* them as integers counted in quarters: lengths in quarter-millimetres,   *)
(* font sizes in quarter-points.  A text is a sequence of one-character    *)
(* strings.                                                                *)
(***************************************************************************)
EXTENDS Integers, Sequences, FiniteSets, TLC

VARIABLES
    pdf,            \* the FPDF object: selected font, font size, current page
    log,            \* the document's content: instructions in emission order
    data,           \* draw_grid's argument (the records the loop will read)
    done,           \* the for loop of draw_grid has exhausted data
    index,          \* draw_grid locals, as left by the last iteration
    row,
    col,
    row_pos,
    x,
    y,
    lines,
    start_y,
    text,           \* arguments of a direct call of a text utility
    font,
    max_width,
    max_size,
    min_size,
    font_size,
    pc,             \* "input", "fit" (shrink_text_to_fit returned), "wrap"
    size,           \* value returned by shrink_text_to_fit
    wrapped_lines   \* value returned by wrap_text

gridVars == <<data, done, index, row, col, row_pos, x, y, lines, start_y>>
callVars == <<text, font, max_width, max_size, min_size, font_size, pc, size,
              wrapped_lines>>
vars == <<pdf, log, gridVars, callVars>>

---------------------------------------------------------------------------
(* Bounds of the model *)
MaxLen == 5
MaxRecords == 34

---------------------------------------------------------------------------
(* Page and grid configuration, app.py lines 8-19 (quarter units) *)
PAGE_WIDTH == 297 * 4
PAGE_HEIGHT == 210 * 4
COLUMNS == 4
ROWS == 8
CELL_WIDTH == 70 * 4
CELL_HEIGHT == 23 * 4
CELL_SPACING == 1 * 4
LINE_HEIGHT == 22
PADDING == 2 * 4
MAX_FONT_SIZE == 11 * 4
MIN_FONT_SIZE == 7 * 4
STEP == 2

grid_width == COLUMNS * CELL_WIDTH + (COLUMNS - 1) * CELL_SPACING
grid_height == ROWS * CELL_HEIGHT + (ROWS - 1) * CELL_SPACING
LEFT_MARGIN == (PAGE_WIDTH - grid_width) \div 2
TOP_MARGIN == (PAGE_HEIGHT - grid_height) \div 2

FONT_MULI == "Muli"
FONT_DIN == "DIN"

\* draw_grid's local max_width, line 75
cell_max_width == CELL_WIDTH - 2 * PADDING

---------------------------------------------------------------------------
(* Python str operations used by the program *)

IsSpace(c) == c \in {" ", "\t", "\n"}

\* str.lower(), per character
LowerChar(c) ==
    CASE c = "N" -> "n"
      [] c = "A" -> "a"
      [] c = "W" -> "w"
      [] OTHER -> c

Lower(s) == [k \in 1..Len(s) |-> LowerChar(s[k])]

RECURSIVE LStrip(_)
LStrip(s) == IF s # <<>> /\ IsSpace(Head(s)) THEN LStrip(Tail(s)) ELSE s

RECURSIVE RStrip(_)
RStrip(s) ==
    IF s # <<>> /\ IsSpace(s[Len(s)]) THEN RStrip(SubSeq(s, 1, Len(s) - 1)) ELSE s

\* str.strip()
Strip(s) == RStrip(LStrip(s))

\* str.split() with no separator: maximal runs of non-whitespace characters.
\* cur is the word being read, acc the words already closed.
RECURSIVE SplitFrom(_, _, _)
SplitFrom(s, cur, acc) ==
    IF s = <<>>
    THEN IF cur = <<>> THEN acc ELSE Append(acc, cur)
    ELSE IF IsSpace(Head(s))
         THEN SplitFrom(Tail(s), <<>>, IF cur = <<>> THEN acc ELSE Append(acc, cur))
         ELSE SplitFrom(Tail(s), Append(cur, Head(s)), acc)

Split(s) == SplitFrom(s, <<>>, <<>>)

---------------------------------------------------------------------------
(* FPDF: font selection and text measurement.  The font files are not part *)
(* of the repository; the glyph table below is a small metric table, in    *)
(* quarter-millimetres of advance per quarter-point of font size, wide     *)
(* enough that texts of a few characters fit, shrink, wrap and overflow.   *)

CharWidth(f, c) ==
    IF IsSpace(c) THEN 1
    ELSE IF c \in {"W", "N"} THEN (IF f = FONT_MULI THEN 6 ELSE 3)
    ELSE 2

RECURSIVE SumWidths(_, _)
SumWidths(f, s) ==
    IF s = <<>> THEN 0 ELSE CharWidth(f, Head(s)) + SumWidths(f, Tail(s))

\* pdf.set_font(font, "", size)
SetFont(p, f, sz) == [p EXCEPT !.font_family = f, !.font_size = sz]

\* pdf.get_string_width(s): sum of the glyph advances, scaled by the size
GetStringWidth(p, s) == SumWidths(p.font_family, s) * p.font_size

\* pdf.add_page(): the next page becomes current, the font is kept
AddPage(p) == [p EXCEPT !.page = p.page + 1]

\* GridPDF.__init__: one page added, no font selected yet (FPDF's 12pt default)
NewPdf == [font_family |-> "", font_size |-> 12 * 4, page |-> 1]

---------------------------------------------------------------------------
(* shrink_text_to_fit, app.py lines 36-42 *)

\* a shrink loop that forgets the floor
ShrinkNoFloor(p, t, mw, sz, mn) == GetStringWidth(p, t) > mw

\* the loop condition of line 39
ShrinkContinues(p, t, mw, sz, mn) == GetStringWidth(p, t) > mw /\ sz > mn

\* the while loop of lines 39-41; sz is the local `size`
RECURSIVE ShrinkLoop(_, _, _, _, _, _)
ShrinkLoop(p, t, f, mw, sz, mn) ==
    IF ShrinkContinues(p, t, mw, sz, mn)
    THEN ShrinkLoop(SetFont(p, f, sz - STEP), t, f, mw, sz - STEP, mn)
    ELSE [ret |-> sz, pdf |-> p]

shrink_text_to_fit(p, t, f, mw, mx, mn) ==
    ShrinkLoop(SetFont(p, f, mx), t, f, mw, mx, mn)

---------------------------------------------------------------------------
(* wrap_text, app.py lines 45-62 *)

\* a wrap_text that measures only the word it is about to append
WordFitsWordOnly(p, current_line, word, mw) == GetStringWidth(p, word) <= mw

\* a wrap_text that measures the candidate line with its trailing space
WordFitsUntrimmed(p, current_line, word, mw) ==
    GetStringWidth(p, current_line \o word \o <<" ">>) <= mw

\* lines 52-53: the candidate line, trimmed, is measured against max_width
WordFits(p, current_line, word, mw) ==
    GetStringWidth(p, Strip(current_line \o word \o <<" ">>)) <= mw

\* a wrap_text that closes a line without trimming it
WrapBreakNoStrip(st, word) ==
    [lines |-> IF st.current_line # <<>>
               THEN Append(st.lines, st.current_line)
               ELSE st.lines,
     current_line |-> word \o <<" ">>]

\* the else branch, lines 56-58: close the current line, restart with word
WrapBreak(st, word) ==
    [lines |-> IF st.current_line # <<>>
               THEN Append(st.lines, Strip(st.current_line))
               ELSE st.lines,
     current_line |-> word \o <<" ">>]

\* one iteration of the for loop, lines 52-58
WrapWord(p, st, word, mw) ==
    LET test_line == st.current_line \o word \o <<" ">>
    IN  IF WordFits(p, st.current_line, word, mw)
        THEN [st EXCEPT !.current_line = test_line]
        ELSE WrapBreak(st, word)

RECURSIVE WrapLoop(_, _, _, _)
WrapLoop(p, st, words, mw) ==
    IF words = <<>> THEN st
    ELSE WrapLoop(p, WrapWord(p, st, Head(words), mw), Tail(words), mw)

wrap_text(p, t, f, fs, mw) ==
    LET p1 == SetFont(p, f, fs)
        st == WrapLoop(p1, [lines |-> <<>>, current_line |-> <<>>], Split(t), mw)
    IN  [ret |-> IF st.current_line # <<>>
                 THEN Append(st.lines, Strip(st.current_line))
                 ELSE st.lines,
         pdf |-> p1]

---------------------------------------------------------------------------
(* Records: Python values of a row, app.py lines 93-101 *)

Missing == [t |-> "missing", s |-> <<>>]    \* the key is not in the row
NaN == [t |-> "float", s |-> <<>>]          \* float('nan'), an empty Excel cell
None == [t |-> "None", s |-> <<>>]
Str(s) == [t |-> "str", s |-> s]

Keys == {"Full Name", "Position", "Company"}

\* row.get(key, default)
RowGet(r, key, default) == IF r[key].t = "missing" THEN default ELSE r[key]

\* str(value)
PyStr(v) ==
    CASE v.t = "str" -> v.s
      [] v.t = "float" -> <<"n", "a", "n">>
      [] v.t = "None" -> <<"N", "o", "n", "e">>

\* pd.notna(value)
PdNotna(v) == v.t \notin {"float", "None"}

\* a field list that draws the company first
FIELDS_CompanyFirst ==
    << [field |-> "Company", font |-> FONT_DIN, key |-> "Company"],
       [field |-> "Full Name", font |-> FONT_MULI, key |-> "Full Name"],
       [field |-> "Position", font |-> FONT_DIN, key |-> "Position"] >>

\* the list of lines 93-97
FIELDS ==
    << [field |-> "Full Name", font |-> FONT_MULI, key |-> "Full Name"],
       [field |-> "Position", font |-> FONT_DIN, key |-> "Position"],
       [field |-> "Company", font |-> FONT_DIN, key |-> "Company"] >>

\* the test of line 100, on value = str(row.get(key, ''))
IsPresent(value) ==
    /\ PdNotna(Str(value))
    /\ Strip(value) # <<>>
    /\ Lower(value) # <<"n", "a", "n">>

\* lines 92-101: the entries of the fields FIELDS[k..]
RECURSIVE EntriesFrom(_, _)
EntriesFrom(r, k) ==
    IF k > Len(FIELDS) THEN <<>>
    ELSE LET value == PyStr(RowGet(r, FIELDS[k].key, Str(<<>>)))
         IN  (IF IsPresent(value)
              THEN << [field |-> FIELDS[k].field, font |-> FIELDS[k].font,
                       text |-> value] >>
              ELSE <<>>) \o EntriesFrom(r, k + 1)

\* line 107: the tuples (line, font, font_size) of one field.  The field name
\* is kept with each tuple to tell the fields apart in the properties.
LineTuples(wrapped, entry, fs) ==
    [k \in 1..Len(wrapped) |->
        [text |-> wrapped[k], font |-> entry.font, font_size |-> fs,
         field |-> entry.field]]

\* lines 103-107: shrink, then wrap, each entry in turn
RECURSIVE PrepareLines(_, _, _)
PrepareLines(p, entries, acc) ==
    IF entries = <<>> THEN [lines |-> acc, pdf |-> p]
    ELSE LET e == Head(entries)
             fit == shrink_text_to_fit(p, e.text, e.font, cell_max_width,
                                       MAX_FONT_SIZE, MIN_FONT_SIZE)
             wr == wrap_text(fit.pdf, e.text, e.font, fit.ret, cell_max_width)
         IN  PrepareLines(wr.pdf, Tail(entries),
                          acc \o LineTuples(wr.ret, e, fit.ret))

---------------------------------------------------------------------------
(* GridPDF.draw_grid, app.py lines 74-118 *)

CellIndex(i) == i % (COLUMNS * ROWS)                             \* line 78
Col(cell_index) == cell_index % COLUMNS                          \* line 79
RowPos(cell_index) == cell_index \div COLUMNS                    \* line 80

\* a page break at every first cell, the first record included
NewPageAtEveryFirstCell(cell_index, i) == cell_index = 0

NewPageNeeded(cell_index, i) == cell_index = 0 /\ i # 0          \* line 82
CellX(c) == LEFT_MARGIN + c * (CELL_WIDTH + CELL_SPACING)        \* line 85
CellY(r) == TOP_MARGIN + r * (CELL_HEIGHT + CELL_SPACING)        \* line 86

\* vertical centring without the overflow case (as in app_backup.py line 91)
StartYAlwaysCentred(cy, total_height) == cy + (CELL_HEIGHT - total_height) \div 2

\* line 111
StartY(cy, total_height) ==
    IF total_height < CELL_HEIGHT
    THEN cy + (CELL_HEIGHT - total_height) \div 2
    ELSE cy

\* a guard that tests the line's top edge only
LineTopFits(sy, i, cy) == sy + i * LINE_HEIGHT <= cy + CELL_HEIGHT

\* the guard of line 115
LineFits(sy, i, cy) == sy + i * LINE_HEIGHT + LINE_HEIGHT <= cy + CELL_HEIGHT

\* an instruction written to the document; rec is the index of the record
\* whose iteration wrote it
Instr(o, p, rec, fld, ix, iy, w, h, txt) ==
    [op |-> o, page |-> p.page, rec |-> rec, field |-> fld, x |-> ix, y |-> iy,
     w |-> w, h |-> h, txt |-> txt, font |-> p.font_family, size |-> p.font_size]

\* lines 114-118: the lines of the stack from position i on
RECURSIVE DrawLines(_, _, _, _, _, _, _, _)
DrawLines(p, lg, ls, i, cx, sy, cy, rec) ==
    IF i >= Len(ls) THEN [log |-> lg, pdf |-> p]
    ELSE IF LineFits(sy, i, cy)
         THEN LET l == ls[i + 1]
                  p1 == SetFont(p, l.font, l.font_size)
              IN  DrawLines(p1,
                            Append(lg, Instr("cell", p1, rec, l.field, cx + PADDING,
                                             sy + i * LINE_HEIGHT, cell_max_width,
                                             LINE_HEIGHT, l.text)),
                            ls, i + 1, cx, sy, cy, rec)
         ELSE DrawLines(p, lg, ls, i + 1, cx, sy, cy, rec)

\* The input list.  Its records alternate between two rows, data[1] at the
\* even indexes and data[2] at the odd ones; its length is whatever index the
\* loop has reached when EndOfData ends it.
FieldValues ==
    { Missing, NaN, None, Str(<<" ">>), Str(<<"N", "a", "N">>),
      Str(<<"a">>), Str(<<"a", " ", " ", "a">>), Str(<<"W", " ", "W">>),
      Str(<<"W", "W", " ", "W", "W">>), Str(<<"W", "W", "W", "W">>) }
Rows == [Keys -> FieldValues]
FillerRows ==
    { [k \in Keys |-> Missing],
      [k \in Keys |-> Str(<<"W", "W", " ", "W", "W">>)] }

RowAt(i) == data[(i % 2) + 1]

CallsIdle ==
    /\ text = <<>>
    /\ font = FONT_MULI
    /\ max_width = 0
    /\ max_size = 0
    /\ min_size = 0
    /\ font_size = 0
    /\ pc = "idle"
    /\ size = 0
    /\ wrapped_lines = <<>>

\* after pdf = GridPDF(), before the first iteration of draw_grid
Init ==
    /\ pdf = NewPdf
    /\ log = <<>>
    /\ data \in Rows \X FillerRows
    /\ done = FALSE
    /\ index = -1
    /\ row = [k \in Keys |-> Missing]
    /\ col = 0
    /\ row_pos = 0
    /\ x = 0
    /\ y = 0
    /\ lines = <<>>
    /\ start_y = 0
    /\ CallsIdle

\* one iteration of the for loop of line 77, for the record at index + 1.
\* prep and drawn are bound once each (the locals `lines` and the drawing).
DrawRecord ==
    /\ ~done
    /\ index + 1 < MaxRecords
    /\ LET i == index + 1
           r == RowAt(i)
           cell_index == CellIndex(i)
           c == Col(cell_index)
           rp == RowPos(cell_index)
           newpage == NewPageNeeded(cell_index, i)
           p1 == IF newpage THEN AddPage(pdf) ELSE pdf
           log1 == IF newpage
                   THEN Append(log, Instr("add_page", p1, i, "", 0, 0, 0, 0, <<>>))
                   ELSE log
           cx == CellX(c)
           cy == CellY(rp)
           log2 == Append(log1, Instr("rect", p1, i, "", cx, cy, CELL_WIDTH,
                                      CELL_HEIGHT, <<>>))
       IN  \E prep \in {PrepareLines(p1, EntriesFrom(r, 1), <<>>)} :
             LET total_height == Len(prep.lines) * LINE_HEIGHT
                 sy == StartY(cy, total_height)
             IN  \E drawn \in {DrawLines(prep.pdf, log2, prep.lines, 0, cx, sy,
                                         cy, i)} :
                   /\ index' = i
                   /\ row' = r
                   /\ col' = c
                   /\ row_pos' = rp
                   /\ x' = cx
                   /\ y' = cy
                   /\ lines' = prep.lines
                   /\ start_y' = sy
                   /\ pdf' = drawn.pdf
                   /\ log' = drawn.log
    /\ UNCHANGED <<data, done, callVars>>

\* the list is exhausted: draw_grid returns
EndOfData ==
    /\ ~done
    /\ done' = TRUE
    /\ UNCHANGED <<pdf, log, data, index, row, col, row_pos, x, y, lines, start_y,
                   callVars>>

Next == DrawRecord \/ EndOfData

Spec == Init /\ [][Next]_vars

---------------------------------------------------------------------------
(* Direct calls of the two utilities on bounded inputs *)

Alphabet == {" ", "a", "W"}
Texts == UNION {[1..n -> Alphabet] : n \in 0..MaxLen}
Fonts == {FONT_MULI, FONT_DIN}
MaxWidths == {40, 160, cell_max_width}
FitSizes == {MIN_FONT_SIZE, MIN_FONT_SIZE + 1, MIN_FONT_SIZE + STEP, MAX_FONT_SIZE}

GridIdle ==
    /\ data = <<>>
    /\ done = TRUE
    /\ index = -1
    /\ row = [k \in Keys |-> Missing]
    /\ col = 0
    /\ row_pos = 0
    /\ x = 0
    /\ y = 0
    /\ lines = <<>>
    /\ start_y = 0

InitFit ==
    /\ pdf = NewPdf
    /\ log = <<>>
    /\ GridIdle
    /\ text \in Texts
    /\ font \in Fonts
    /\ max_width \in MaxWidths
    /\ max_size \in FitSizes
    /\ min_size \in FitSizes
    /\ font_size = 0
    /\ pc = "input"
    /\ size = 0
    /\ wrapped_lines = <<>>

CallShrink ==
    /\ pc = "input"
    /\ LET r == shrink_text_to_fit(pdf, text, font, max_width, max_size, min_size)
       IN  /\ size' = r.ret
           /\ pdf' = r.pdf
    /\ pc' = "fit"
    /\ UNCHANGED <<log, gridVars, text, font, max_width, max_size, min_size,
                   font_size, wrapped_lines>>

CallWrap ==
    /\ pc = "input"
    /\ \E fs \in FitSizes :
         /\ font_size' = fs
         /\ LET r == wrap_text(pdf, text, font, fs, max_width)
            IN  /\ wrapped_lines' = r.ret
                /\ pdf' = r.pdf
    /\ pc' = "wrap"
    /\ UNCHANGED <<log, gridVars, text, font, max_width, max_size, min_size, size>>

NextFit == CallShrink \/ CallWrap

SpecFit == InitFit /\ [][NextFit]_vars

---------------------------------------------------------------------------
(* Properties of the text utilities, checked under SpecFit *)

\* measured width of a text in the font and size of a call
WidthAt(f, sz, s) == SumWidths(f, s) * sz

\* whitespace-normalized text: trimmed, every whitespace run one space
RECURSIVE Squeeze(_)
Squeeze(s) ==
    IF s = <<>> THEN <<>>
    ELSE IF IsSpace(Head(s))
         THEN IF Len(s) > 1 /\ IsSpace(s[2])
              THEN Squeeze(Tail(s))
              ELSE <<" ">> \o Squeeze(Tail(s))
         ELSE <<Head(s)>> \o Squeeze(Tail(s))

Normalize(s) == Squeeze(Strip(s))

RECURSIVE JoinLines(_)
JoinLines(ls) ==
    IF ls = <<>> THEN <<>>
    ELSE IF Len(ls) = 1 THEN ls[1]
    ELSE ls[1] \o <<" ">> \o JoinLines(Tail(ls))

HasNoSpace(s) == \A k \in 1..Len(s) : ~IsSpace(s[k])

NoWideWord(f, sz, s, mw) ==
    \A k \in 1..Len(Split(s)) : WidthAt(f, sz, Split(s)[k]) <= mw

\* C1: for max_width > 0 and max_size >= min_size > 0, shrink_text_to_fit
\* returns a size within [min_size, max_size], and exactly max_size when the
\* text's width at max_size is at most max_width.
C1_FitWithinBounds ==
    (pc = "fit" /\ max_width > 0 /\ max_size >= min_size /\ min_size > 0)
        => /\ min_size <= size
           /\ size <= max_size
           /\ (WidthAt(font, max_size, text) <= max_width => size = max_size)

\* C2: every line wrap_text returns is at most max_width wide, except a line
\* that is exactly one word which alone is wider than max_width.
C2_WrapLinesFit ==
    pc = "wrap" =>
        \A k \in 1..Len(wrapped_lines) :
            \/ WidthAt(font, font_size, wrapped_lines[k]) <= max_width
            \/ /\ wrapped_lines[k] # <<>>
               /\ HasNoSpace(wrapped_lines[k])

C2_Witness ==
    /\ pc = "wrap"
    /\ Len(wrapped_lines) >= 2
    /\ ~HasNoSpace(wrapped_lines[1])
    /\ \E k \in 1..Len(wrapped_lines) :
           WidthAt(font, font_size, wrapped_lines[k]) > max_width

\* C3: when no single word is wider than max_width, the lines wrap_text
\* returns, joined by single spaces, are the whitespace-normalized input;
\* empty input gives no lines.
C3_WrapPreservesText ==
    pc = "wrap" =>
        /\ NoWideWord(font, font_size, text, max_width)
               => JoinLines(wrapped_lines) = Normalize(text)
        /\ text = <<>> => wrapped_lines = <<>>

C3_Witness ==
    /\ pc = "wrap"
    /\ NoWideWord(font, font_size, text, max_width)
    /\ Len(wrapped_lines) >= 2
    /\ text # Normalize(text)

\* C6 as stated: with max_size < min_size the call fails before any work,
\* so shrink_text_to_fit never returns a size for such bounds.
C6_InvalidBoundsRejected == ~(pc = "fit" /\ max_size < min_size)

\* C6 amended: nothing is validated; with max_size < min_size
\* shrink_text_to_fit returns max_size itself, whatever the text's width.
C6_InvalidBoundsReturnMax ==
    (pc = "fit" /\ max_size < min_size) => size = max_size

C6_Witness ==
    /\ pc = "fit"
    /\ max_size < min_size
    /\ WidthAt(font, max_size, text) > max_width
    /\ size = max_size

---------------------------------------------------------------------------
(* Properties of draw_grid, checked under Spec.  In a state with index >= 0 *)
(* the locals describe the record drawn last; every record is the last one *)
(* in the state that follows its iteration.                                *)

PerPage == COLUMNS * ROWS

OfRecord(i) == LET Test(e) == e.rec = i IN SelectSeq(log, Test)
OfRecordOp(i, o) == LET Test(e) == e.rec = i /\ e.op = o IN SelectSeq(log, Test)
PageStarts == LET Test(e) == e.op = "add_page" IN SelectSeq(log, Test)
LinesOfField(f) == LET Test(l) == l.field = f IN SelectSeq(lines, Test)

\* C4: record i is drawn on page i div (C*R), counted from 0 by page starts,
\* at column (i mod (C*R)) mod C and row (i mod (C*R)) div C; a page is
\* started exactly when i mod (C*R) = 0 and i # 0; records k and k + C*R have
\* the same cell rectangle on consecutive pages; with C = 4, R = 8 and 33
\* records, records 0-31 are on page 0 and record 32 on page 1 at (0, 0).
C4_CellPlacement ==
    index >= 0 =>
        LET i == index
            rects == OfRecordOp(i, "rect")
        IN  /\ Len(rects) = 1
            /\ rects[1].page - 1 = i \div PerPage
            /\ Len(PageStarts) = i \div PerPage
            /\ (OfRecordOp(i, "add_page") # <<>>) <=> (i % PerPage = 0 /\ i # 0)
            /\ col = (i % PerPage) % COLUMNS
            /\ row_pos = (i % PerPage) \div COLUMNS
            /\ rects[1].x = x /\ rects[1].y = y
            /\ x = 28 + col * 284
            /\ y = 38 + row_pos * 96
            /\ i >= PerPage =>
                   LET before == OfRecordOp(i - PerPage, "rect")
                   IN  /\ Len(before) = 1
                       /\ before[1].x = rects[1].x /\ before[1].y = rects[1].y
                       /\ before[1].w = rects[1].w /\ before[1].h = rects[1].h
                       /\ before[1].page + 1 = rects[1].page
            /\ (COLUMNS = 4 /\ ROWS = 8 /\ i = 32) =>
                   /\ \A k \in 1..Len(log) :
                          log[k].page - 1 = (IF log[k].rec <= 31 THEN 0 ELSE 1)
                   /\ col = 0 /\ row_pos = 0

C4_Witness == done /\ index = 32 /\ pdf.page = 2 /\ Len(PageStarts) = 1

\* what C5 counts as an absent field
ClaimedAbsent(v) ==
    \/ v.t \in {"missing", "float", "None"}
    \/ v.t = "str" /\ (Strip(v.s) = <<>> \/ Lower(v.s) = <<"n", "a", "n">>)

\* C5: a record whose three fields are all absent (missing key, NaN, None,
\* empty or whitespace-only text, 'nan' in any case) gets exactly one draw
\* instruction, the border rectangle, and no text instruction.
C5_AbsentRecordOnlyBorder ==
    (index >= 0 /\ \A k \in Keys : ClaimedAbsent(row[k])) =>
        /\ Len(OfRecordOp(index, "rect")) = 1
        /\ OfRecordOp(index, "cell") = <<>>

FieldRank(f) ==
    CASE f = "Full Name" -> 1
      [] f = "Position" -> 2
      [] f = "Company" -> 3
      [] OTHER -> 0

\* e2 may directly follow e1 in the document
MayFollow(e1, e2) ==
    /\ e1.rec <= e2.rec
    /\ e2.op = "add_page" => e1.rec < e2.rec
    /\ e2.op = "rect" => (e1.rec < e2.rec \/ e1.op = "add_page")
    /\ e2.op = "cell" =>
           /\ e1.rec = e2.rec
           /\ e1.op \in {"rect", "cell"}
           /\ e1.op = "cell" => FieldRank(e1.field) <= FieldRank(e2.field)

RECURSIVE IsPrefix(_, _)
IsPrefix(s, t) ==
    \/ s = <<>>
    \/ t # <<>> /\ Head(s) = Head(t) /\ IsPrefix(Tail(s), Tail(t))

\* the texts drawn for field f of the last record, in document order
DrawnTexts(f) ==
    LET Test(e) == e.rec = index /\ e.op = "cell" /\ e.field = f
        es == SelectSeq(log, Test)
    IN  [k \in 1..Len(es) |-> es[k].txt]

C8_LinesInsideCell ==
    index >= 0 =>
        LET cells == OfRecordOp(index, "cell")
        IN  /\ Len(cells) <= Len(lines)
            /\ \A j \in 1..Len(cells) :
                   /\ cells[j].txt = lines[j].text
                   /\ cells[j].y = start_y + (j - 1) * LINE_HEIGHT
                   /\ cells[j].y >= y
                   /\ cells[j].y + cells[j].h <= y + CELL_HEIGHT
            /\ \A j \in 1..Len(lines) :
                   (j <= Len(cells)) <=> (start_y + j * LINE_HEIGHT <= y + CELL_HEIGHT)

C8_Witness ==
    /\ index >= 0
    /\ Len(lines) = 6
    /\ Len(OfRecordOp(index, "cell")) = 4

\* C9: if line_count * line_height < cell_height the stack starts
\* (cell_height - total_height)/2 below the cell's top, the gaps above and
\* below it are equal and no line is dropped; otherwise it starts at the
\* cell's top.  Lines are dropped only when the stack is taller than the cell.
C9_VerticalCentring ==
    index >= 0 =>
        LET total_height == Len(lines) * LINE_HEIGHT
            emitted == Len(OfRecordOp(index, "cell"))
        IN  /\ total_height < CELL_HEIGHT =>
                   /\ 2 * (start_y - y) = CELL_HEIGHT - total_height
                   /\ start_y - y = (y + CELL_HEIGHT) - (start_y + total_height)
                   /\ emitted = Len(lines)
            /\ total_height >= CELL_HEIGHT => start_y = y
            /\ emitted < Len(lines) => total_height > CELL_HEIGHT

C9_Witness ==
    /\ index >= 0
    /\ Len(lines) = 4
    /\ start_y = y + 2
    /\ Len(OfRecordOp(index, "cell")) = 4

\* C10: a field is split into two or more lines only at the floor size: when
\* its size is above MIN_FONT_SIZE it is one line, the normalized text.
C10_WrapOnlyAtFloor ==
    index >= 0 =>
        \A f \in Keys :
            LET fl == LinesOfField(f)
            IN  /\ Len(fl) >= 2 => \A k \in 1..Len(fl) : fl[k].font_size = MIN_FONT_SIZE
                /\ (fl # <<>> /\ fl[1].font_size > MIN_FONT_SIZE) =>
                       /\ Len(fl) = 1
                       /\ fl[1].text = Normalize(PyStr(RowGet(row, f, Str(<<>>))))

C10_Witness ==
    /\ index >= 0
    /\ Len(LinesOfField("Full Name")) = 2
    /\ Len(LinesOfField("Position")) = 1
    /\ LinesOfField("Position")[1].font_size > MIN_FONT_SIZE
    /\ LinesOfField("Position")[1].font_size < MAX_FONT_SIZE
    /\ ~HasNoSpace(LinesOfField("Position")[1].text)

====
